---- MODULE Spec2Model ----
(***************************************************************************)
(* src/App.tsx. The server half (lines 763-963): the SQLite schema and the *)
(* admin seed that run at boot, the express-session store, the three auth  *)
(* routes and the eight business routes. The browser half (lines 157-482): *)
(* the state of the App component, its effects and handlers, and the fetch *)
(* calls between the two.                                                   *)
(*                                                                         *)
(* JSON values and SQLite values are tagged records [t, v] with v a        *)
(* string, so that "5000" (text) and 5000 (number) are different values    *)
(* and the conversions between request body, column and response row are   *)
(* visible.                                                                *)
(***************************************************************************)
EXTENDS Integers, Sequences, FiniteSets, Bags, TLC

\* ------------------------------------------------------------------ bounds

\* Business rows over all four tables together.
MaxRows == 2
\* CURRENT_TIMESTAMP has a resolution of one second; seconds 0..MaxClock.
MaxClock == 1
\* The fetch calls of the browser that have not settled, at any one time.
MaxInFlight == 2
\* Business rows created through the browser's form.
MaxFormRows == 1

\* ------------------------------------------------------------------ values

T(s) == [t |-> "text", v |-> s]
N(s) == [t |-> "number", v |-> s]
B(s) == [t |-> "boolean", v |-> s]
Null == [t |-> "null", v |-> ""]
Undefined == [t |-> "undefined", v |-> ""]

\* Texts that SQLite reads as an integer literal.
NumericText == {"5000"}

\* Two browser sessions (two cookie jars).
Clients == {"c1", "c2"}

Resources == {"inspections", "trip-reports", "estimates", "minutes"}

TableOf(r) ==
  CASE r = "inspections" -> "inspections"
    [] r = "trip-reports" -> "trip_reports"
    [] r = "estimates" -> "estimates"
    [] r = "minutes" -> "minutes"

BusinessTables == {TableOf(r) : r \in Resources}
AllTables == {"users"} \cup BusinessTables

PathOf(r) ==
  CASE r = "inspections" -> "/api/inspections"
    [] r = "trip-reports" -> "/api/trip-reports"
    [] r = "estimates" -> "/api/estimates"
    [] r = "minutes" -> "/api/minutes"

BusinessPaths == {PathOf(r) : r \in Resources}

\* The declared type of a domain column (CREATE TABLE statements).
ColumnAffinity(col) == IF col \in {"expenses", "amount"} THEN "INTEGER" ELSE "TEXT"

\* The domain columns of each table, as the CREATE TABLE statement and the
\* route's INSERT name them.
InspectionColumns == {"project_name", "date", "location", "findings", "status"}
TripReportColumns ==
  {"destination", "date_start", "date_end", "purpose", "results", "expenses"}
EstimateColumns == {"client_name", "project_name", "amount", "details", "status"}
MinuteColumns == {"title", "date", "attendees", "content", "action_items"}

Columns(r) ==
  CASE r = "inspections" -> InspectionColumns
    [] r = "trip-reports" -> TripReportColumns
    [] r = "estimates" -> EstimateColumns
    [] r = "minutes" -> MinuteColumns

\* ------------------------------------------------------------------ bcrypt

\* The salt bcrypt draws when it hashes.
Salts == {"salt1"}

\* bcrypt.hashSync(s, 10): a one-way digest of the salt and the plaintext.
hashSync(s, salt) == [alg |-> "bcrypt", cost |-> "10", salt |-> salt, digest |-> <<salt, s>>]

\* bcryptjs throws "Illegal arguments" unless the candidate is a string.
compareThrows(p) == p.t # "text"

\* Mutant: the candidate is compared with the stored hash as plain text.
compareSyncPlain(p, hash) == p.v = hash.digest[2] /\ hash.alg = "plain"

\* bcrypt.compareSync(s, hash) for a string s: re-hash with the stored salt.
compareSync(p, hash) == hashSync(p.v, hash.salt) = hash

\* ------------------------------------------------------------------ SQLite

\* better-sqlite3 binds numbers, strings and null; undefined binds as NULL;
\* anything else makes run() throw a TypeError.
Bindable(val) == val.t \in {"text", "number", "null", "undefined"}

\* SQL NULL.
SqlNull == [t |-> "NULL", v |-> ""]

Bind(val) ==
  CASE val.t = "text" -> [t |-> "TEXT", v |-> val.v]
    [] val.t = "number" -> [t |-> "INTEGER", v |-> val.v]
    [] val.t \in {"null", "undefined"} -> SqlNull

\* Column type affinity on INSERT. (The request bodies of this model carry
\* numbers only in INTEGER columns.)
ApplyAffinity(aff, sv) ==
  CASE sv.t = "NULL" -> sv
    [] sv.t = "TEXT" /\ aff = "TEXT" -> sv
    [] sv.t = "TEXT" /\ aff = "INTEGER" ->
         IF sv.v \in NumericText THEN [t |-> "INTEGER", v |-> sv.v] ELSE sv
    [] sv.t = "INTEGER" /\ aff = "INTEGER" -> sv

\* A stored value as res.json() writes it.
ToJson(sv) ==
  CASE sv.t = "NULL" -> Null
    [] sv.t = "TEXT" -> T(sv.v)
    [] sv.t = "INTEGER" -> N(sv.v)

\* const { a, b, ... } = req.body: an absent key is undefined.
Field(body, k) == IF k \in DOMAIN body THEN body[k] ELSE Undefined

Max(S) == CHOOSE m \in S : \A x \in S : x <= m

\* INTEGER PRIMARY KEY AUTOINCREMENT: one more than the largest rowid.
NextRowid(rows) == 1 + Max({0} \cup {rows[i].id : i \in 1..Len(rows)})

\* ------------------------------------------------------------------ state

VARIABLES
  pc,        \* "stopped" | "schema" | "serving": position of the boot script
  db,        \* construction.db: table name -> rows in rowid order
  now,       \* the wall clock in seconds
  sess,      \* express-session MemoryStore: client -> session data
  resp,      \* the response to the request handled last
  log,       \* history: the creates that were answered with {id}
  lastLogin, \* history: client -> id of the user that last logged in on the session
  phase,     \* history: client -> "fresh" | "meOk" | "loggedOut"
  via,       \* history: the session each create answered with {id} came from
  \* The browser that runs App:
  mounted,     \* the first render has happened and its effects have run
  currentUser, \* useState user (NoUser for null)
  view,        \* useState view
  loading,     \* useState loading
  isModalOpen, \* useState isModalOpen
  inspections, \* useState inspections
  tripReports, \* useState tripReports
  estimates,   \* useState estimates
  minutes,     \* useState minutes
  net,         \* the fetch calls that have not settled: a bag of messages
  acked        \* history: the creates whose ok response the form handler has seen

serverVars == <<pc, db, now, sess, resp, log, lastLogin, phase, via>>
listVars == <<inspections, tripReports, estimates, minutes>>
clientVars == <<mounted, currentUser, view, loading, isModalOpen, listVars, net, acked>>
vars == <<serverVars, clientVars>>

\* No userId on the session (req.session.userId is undefined).
NoSession == [userId |-> 0, username |-> ""]

NoArg == [none |-> Null]

NoResp ==
  [client |-> "none", method |-> "none", path |-> "none", arg |-> NoArg,
   status |-> 0, error |-> "", id |-> 0, username |-> "", role |-> "",
   success |-> FALSE, rows |-> <<>>, stmts |-> 0, authed |-> FALSE]

Rows(t) == IF t \in DOMAIN db THEN db[t] ELSE <<>>
Users == Rows("users")
TotalRows == Len(Rows("inspections")) + Len(Rows("trip_reports"))
             + Len(Rows("estimates")) + Len(Rows("minutes"))

\* db.prepare('SELECT * FROM users WHERE username = ?').get(name)
UsersNamed(name) == {i \in 1..Len(Users) : Users[i].username = name}

\* ------------------------------------------------------------------ inputs

\* The file construction.db before the first boot: no table exists.
FreshFile == [t \in {} |-> <<>>]

LoginNames == {"admin", "nobody"}
\* The last one is a password sent as a JSON number.
LoginPasswords == {T("admin123"), T("wrong"), N("123")}

\* Request bodies. The browser form sends every field as a string; the other
\* bodies are what any HTTP client can send.

\* Every field a string, and a user_id key on top.
InspectionBodies ==
  { [project_name |-> T("Bridge"), date |-> T("2024-01-01"),
     location |-> T("Osaka"), findings |-> T("ok"), status |-> T("pending"),
     user_id |-> N("2")] }

\* The form's body (expenses typed as "5000"), and one whose expenses is a
\* JSON boolean.
TripReportBodies ==
  { [destination |-> T("Tokyo"), date_start |-> T("2024-02-01"),
     date_end |-> T("2024-02-02"), purpose |-> T("survey"),
     results |-> T("done"), expenses |-> T("5000")],
    [destination |-> T("Nagoya"), date_start |-> T("2024-02-03"),
     date_end |-> T("2024-02-04"), purpose |-> T("audit"),
     results |-> T("done"), expenses |-> B("true")] }

\* No details key, and an amount that is not a number.
EstimateBodies ==
  { [client_name |-> T("ACME"), project_name |-> T("Tunnel"),
     amount |-> T("abc"), status |-> T("sent")] }

\* attendees sent as null.
MinuteBodies ==
  { [title |-> T("Review"), date |-> T("2024-03-02"),
     attendees |-> Null, content |-> T("notes"), action_items |-> T("none")] }

\* ------------------------------------------------------------------ browser

\* The session of the browser that runs App.
Browser == "c1"

Views == {"dashboard", "inspections", "trip-reports", "estimates", "minutes"}

\* The endpoints table of fetchData.
endpoints(v) == IF v = "dashboard" THEN "/api/inspections" ELSE PathOf(v)

\* const endpoint = `/api/${view}` of the form's onSubmit.
endpoint(v) == IF v = "dashboard" THEN "/api/dashboard" ELSE PathOf(v)

\* user === null
NoUser == [id |-> 0, username |-> "", role |-> ""]

\* What the login form can send: both fields are strings.
LoginForms ==
  { [username |-> T("admin"), password |-> T("admin123")],
    [username |-> T("admin"), password |-> T("wrong")] }

\* Object.fromEntries(formData.entries()) of the create form: every input of
\* the view, each a string.
InspectionForms ==
  { [project_name |-> T("Bridge"), date |-> T("2024-01-01"),
     location |-> T("Osaka"), findings |-> T("crack"), status |-> T("urgent")] }

TripReportForms ==
  { [destination |-> T("Tokyo"), date_start |-> T("2024-02-01"),
     date_end |-> T("2024-02-02"), purpose |-> T("survey"),
     results |-> T("done"), expenses |-> T("5000")] }

EstimateForms ==
  { [client_name |-> T("ACME"), project_name |-> T("Tunnel"),
     amount |-> T("5000"), details |-> T("steel"), status |-> T("draft")] }

MinuteForms ==
  { [title |-> T("Review"), date |-> T("2024-03-02"),
     attendees |-> T("Sato"), content |-> T("notes"), action_items |-> T("none")] }

\* The dashboard's form has no input.
DashboardForms == { [k \in {} |-> Null] }

FormBodies(v) ==
  CASE v = "inspections" -> InspectionForms
    [] v = "trip-reports" -> TripReportForms
    [] v = "estimates" -> EstimateForms
    [] v = "minutes" -> MinuteForms
    [] v = "dashboard" -> DashboardForms

\* A fetch call: which code issued it (kind), the view its closure captured,
\* the body it sends, how far it got ("sent", then "answered" with the
\* server's response or "failed" with a network error).
NoMsg ==
  [kind |-> "none", view |-> "none", body |-> NoArg, stage |-> "idle",
   resp |-> NoResp]

\* The fetch calls in flight.
InFlight == BagToSet(net)
\* Room for one more fetch call.
Room == BagCardinality(net) < MaxInFlight
\* net with one more call, and net with call m replaced by what follows it.
Put(m) == net (+) SetToBag({m})
Swap(m, n) == (net (-) SetToBag({m})) (+) SetToBag({n})
Take(m) == net (-) SetToBag({m})

Fetch(kind, v, body) ==
  [NoMsg EXCEPT !.kind = kind, !.view = v, !.body = body, !.stage = "sent"]

\* The promise of the fetch has settled, either way.
Settled(m) == m.stage \in {"answered", "failed"}

\* res.ok
Ok(m) == m.stage = "answered" /\ m.resp.status \in 200..299

\* The three returns of App's render: spinner, LoginView, the shell.
Screen ==
  IF loading THEN "spinner"
  ELSE IF currentUser = NoUser THEN "login" ELSE "shell"

\* ------------------------------------------------------------------ boot

Init ==
  /\ pc = "stopped"
  /\ db = FreshFile
  /\ now = 0
  /\ sess = [c \in Clients |-> NoSession]
  /\ resp = NoResp
  /\ log = {}
  /\ lastLogin = [c \in Clients |-> 0]
  /\ phase = [c \in Clients |-> "fresh"]
  /\ via = {}
  /\ mounted = FALSE
  /\ currentUser = NoUser
  /\ view = "dashboard"
  /\ loading = TRUE
  /\ isModalOpen = FALSE
  /\ inspections = <<>>
  /\ tripReports = <<>>
  /\ estimates = <<>>
  /\ minutes = <<>>
  /\ net = EmptyBag
  /\ acked = {}

\* Mutant: the tables are created anew at every boot.
InitSchemaRecreates ==
  /\ pc = "stopped"
  /\ db' = [t \in AllTables |-> <<>>]
  /\ pc' = "schema"
  /\ UNCHANGED <<now, sess, resp, log, lastLogin, phase>>

\* db.exec(CREATE TABLE IF NOT EXISTS ... x5)
InitSchema ==
  /\ pc = "stopped"
  /\ db' = [t \in AllTables |-> IF t \in DOMAIN db THEN db[t] ELSE <<>>]
  /\ pc' = "schema"
  /\ UNCHANGED <<now, sess, resp, log, lastLogin, phase>>

\* Mutant: the seed inserts without looking for an admin row first. (The
\* UNIQUE constraint is left out of the mutant as well, or the boot would throw.)
SeedAdminAlways ==
  /\ pc = "schema"
  /\ \E salt \in Salts :
       db' = [db EXCEPT !["users"] =
                Append(@, [id |-> NextRowid(@), username |-> "admin",
                           password |-> hashSync("admin123", salt),
                           role |-> "admin"])]
  /\ pc' = "serving"
  /\ UNCHANGED <<now, sess, resp, log, lastLogin, phase>>

\* Seed default user if not exists, then startServer().
SeedAdmin ==
  /\ pc = "schema"
  /\ IF UsersNamed("admin") = {}
       THEN \E salt \in Salts :
              db' = [db EXCEPT !["users"] =
                       Append(@, [id |-> NextRowid(@), username |-> "admin",
                                  password |-> hashSync("admin123", salt),
                                  role |-> "admin"])]
       ELSE db' = db
  /\ pc' = "serving"
  /\ UNCHANGED <<now, sess, resp, log, lastLogin, phase>>

\* The process exits: the MemoryStore of express-session goes with it, the
\* database file stays.
Stop ==
  /\ pc # "stopped"
  /\ pc' = "stopped"
  /\ sess' = [c \in Clients |-> NoSession]
  /\ resp' = NoResp
  /\ lastLogin' = [c \in Clients |-> 0]
  /\ phase' = [c \in Clients |-> "fresh"]
  /\ UNCHANGED <<db, now, log>>

\* A second passes.
Tick ==
  /\ now < MaxClock
  /\ now' = now + 1
  /\ UNCHANGED <<pc, db, sess, resp, log, lastLogin, phase>>

\* ------------------------------------------------------------------ session

\* The request as the handler sees it, before any answer is written.
Request(c, method, path, arg) ==
  [NoResp EXCEPT !.client = c, !.method = method, !.path = path, !.arg = arg,
                 !.authed = (sess[c].userId # 0)]

\* res.status(401).json({ error: msg })
Json401(rq, msg, stmts) == [rq EXCEPT !.status = 401, !.error = msg, !.stmts = stmts]

\* An exception that leaves the handler: express answers 500.
Http500(rq, stmts) ==
  [rq EXCEPT !.status = 500, !.error = "Internal Server Error", !.stmts = stmts]

\* Mutant: the middleware lets every request through.
authenticateNothing(c) == TRUE

\* Auth Middleware: if (req.session.userId) next() else 401.
authenticate(c) == sess[c].userId # 0

\* History: the users whose name and password a login body presents.
Presented(u, p) ==
  {Users[i].id : i \in {j \in UsersNamed(u) :
                          /\ p.t = "text"
                          /\ Users[j].password.digest = <<Users[j].password.salt, p.v>>}}

\* app.post('/api/login')
Login(c, u, p) ==
  /\ pc = "serving"
  /\ LET rq == Request(c, "POST", "/api/login", [username |-> T(u), password |-> p])
         found == UsersNamed(u)
     IN IF found = {}
          THEN /\ resp' = Json401(rq, "Invalid credentials", 1)
               /\ UNCHANGED <<sess, lastLogin, phase>>
          ELSE LET user == Users[CHOOSE i \in found : TRUE]
               IN IF compareThrows(p)
                    THEN /\ resp' = Http500(rq, 1)
                         /\ UNCHANGED <<sess, lastLogin, phase>>
                    ELSE IF compareSync(p, user.password)
                      THEN /\ sess' = [sess EXCEPT ![c] =
                                         [userId |-> user.id, username |-> user.username]]
                           /\ resp' = [rq EXCEPT !.status = 200, !.id = user.id,
                                                 !.username = user.username,
                                                 !.role = user.role, !.stmts = 1]
                           /\ lastLogin' = [lastLogin EXCEPT ![c] =
                                              CHOOSE i \in Presented(u, p) : TRUE]
                           /\ phase' = [phase EXCEPT ![c] = "fresh"]
                      ELSE /\ resp' = Json401(rq, "Invalid credentials", 1)
                           /\ UNCHANGED <<sess, lastLogin, phase>>
  /\ UNCHANGED <<pc, db, now, log>>

\* Mutant: the answer is sent but the session is not destroyed.
LogoutKeepsSession(c) ==
  /\ pc = "serving"
  /\ resp' = [Request(c, "POST", "/api/logout", NoArg) EXCEPT
                !.status = 200, !.success = TRUE]
  /\ lastLogin' = [lastLogin EXCEPT ![c] = 0]
  /\ phase' = [phase EXCEPT ![c] =
                 IF phase[c] \in {"meOk", "loggedOut"} THEN "loggedOut" ELSE "fresh"]
  /\ UNCHANGED <<pc, db, now, sess, log>>

\* Mutant: logout behind the auth middleware.
LogoutNeedsSession(c) ==
  /\ pc = "serving"
  /\ IF sess[c].userId # 0
       THEN /\ sess' = [sess EXCEPT ![c] = NoSession]
            /\ resp' = [Request(c, "POST", "/api/logout", NoArg) EXCEPT
                          !.status = 200, !.success = TRUE]
       ELSE /\ resp' = Json401(Request(c, "POST", "/api/logout", NoArg), "Unauthorized", 0)
            /\ UNCHANGED sess
  /\ lastLogin' = [lastLogin EXCEPT ![c] = 0]
  /\ phase' = [phase EXCEPT ![c] =
                 IF phase[c] \in {"meOk", "loggedOut"} THEN "loggedOut" ELSE "fresh"]
  /\ UNCHANGED <<pc, db, now, log>>

\* Mutant: logout empties the whole session store.
LogoutClearsStore(c) ==
  /\ pc = "serving"
  /\ sess' = [d \in Clients |-> NoSession]
  /\ resp' = [Request(c, "POST", "/api/logout", NoArg) EXCEPT
                !.status = 200, !.success = TRUE]
  /\ lastLogin' = [lastLogin EXCEPT ![c] = 0]
  /\ phase' = [phase EXCEPT ![c] =
                 IF phase[c] \in {"meOk", "loggedOut"} THEN "loggedOut" ELSE "fresh"]
  /\ UNCHANGED <<pc, db, now, log>>

\* app.post('/api/logout'): req.session.destroy, then { success: true }.
Logout(c) ==
  /\ pc = "serving"
  /\ sess' = [sess EXCEPT ![c] = NoSession]
  /\ resp' = [Request(c, "POST", "/api/logout", NoArg) EXCEPT
                !.status = 200, !.success = TRUE]
  /\ lastLogin' = [lastLogin EXCEPT ![c] = 0]
  /\ phase' = [phase EXCEPT ![c] =
                 IF phase[c] \in {"meOk", "loggedOut"} THEN "loggedOut" ELSE "fresh"]
  /\ UNCHANGED <<pc, db, now, log>>

\* app.get('/api/me')
Me(c) ==
  /\ pc = "serving"
  /\ LET rq == Request(c, "GET", "/api/me", NoArg)
     IN IF sess[c].userId # 0
          THEN /\ resp' = [rq EXCEPT !.status = 200, !.id = sess[c].userId,
                                     !.username = sess[c].username]
               /\ phase' = [phase EXCEPT ![c] = "meOk"]
          ELSE /\ resp' = Json401(rq, "Not logged in", 0)
               /\ UNCHANGED phase
  /\ UNCHANGED <<pc, db, now, sess, log, lastLogin>>

\* ------------------------------------------------------------------ store

Orderings(n) == {p \in [1..n -> 1..n] : \A i, j \in 1..n : p[i] = p[j] => i = j}

\* SELECT * FROM t ORDER BY created_at DESC: SQL fixes no order among rows
\* whose created_at is equal.
OrderByCreatedAtDesc(rows) ==
  {s \in {[i \in 1..Len(rows) |-> rows[p[i]]] : p \in Orderings(Len(rows))} :
     \A i, j \in 1..Len(rows) : i < j => s[i].created_at >= s[j].created_at}

\* A row as res.json(rows) writes it.
RowToJson(row) == [row EXCEPT !.cols = [k \in DOMAIN row.cols |-> ToJson(row.cols[k])]]

\* GET /api/R
ListRoute(c, r) ==
  /\ pc = "serving"
  /\ LET rq == Request(c, "GET", PathOf(r), NoArg)
     IN IF authenticate(c)
          THEN \E rows \in OrderByCreatedAtDesc(db[TableOf(r)]) :
                 resp' = [rq EXCEPT !.status = 200, !.stmts = 1,
                            !.rows = [i \in 1..Len(rows) |-> RowToJson(rows[i])]]
          ELSE resp' = Json401(rq, "Unauthorized", 0)
  /\ UNCHANGED <<pc, db, now, sess, log, lastLogin, phase>>

\* Mutant: the last placeholder of the statement is bound to nothing.
InsertRowDropsLast(rows, userId, columns, params) ==
  Append(rows, [id |-> NextRowid(rows), user_id |-> userId, created_at |-> now,
                cols |-> [k \in columns |->
                            IF k \in {"status", "expenses", "action_items"}
                              THEN SqlNull
                              ELSE ApplyAffinity(ColumnAffinity(k), Bind(params[k]))]])

\* Mutant: the session's user id is not bound, user_id stays NULL.
InsertRowNoUser(rows, userId, columns, params) ==
  Append(rows, [id |-> NextRowid(rows), user_id |-> 0, created_at |-> now,
                cols |-> [k \in columns |->
                            ApplyAffinity(ColumnAffinity(k), Bind(params[k]))]])

\* INSERT INTO t (user_id, columns...) VALUES (?, ...); created_at takes its
\* default, CURRENT_TIMESTAMP.
InsertRow(rows, userId, columns, params) ==
  Append(rows, [id |-> NextRowid(rows), user_id |-> userId, created_at |-> now,
                cols |-> [k \in columns |->
                            ApplyAffinity(ColumnAffinity(k), Bind(params[k]))]])

\* POST /api/R with the insert run before its parameters are checked: a
\* boolean is stored as NULL and the request still fails.
CreateRouteInsertsThenFails(c, r, columns, body) ==
  /\ pc = "serving"
  /\ LET rq == Request(c, "POST", PathOf(r), NoArg)
         params == [k \in columns |-> Field(body, k)]
         bound == [k \in columns |->
                     IF Bindable(params[k]) THEN params[k] ELSE Null]
     IN IF ~authenticate(c)
          THEN /\ resp' = Json401(rq, "Unauthorized", 0)
               /\ UNCHANGED <<db, log>>
          ELSE /\ TotalRows < MaxRows
               /\ db' = [db EXCEPT ![TableOf(r)] =
                           InsertRow(@, sess[c].userId, columns, bound)]
               /\ IF \E k \in columns : ~Bindable(params[k])
                    THEN /\ resp' = Http500(rq, 1)
                         /\ UNCHANGED log
                    ELSE /\ resp' = [rq EXCEPT !.status = 200, !.stmts = 1,
                                       !.id = NextRowid(db[TableOf(r)])]
                         /\ log' = log \cup {[res |-> r, id |-> NextRowid(db[TableOf(r)]),
                                              body |-> body, by |-> lastLogin[c]]}
  /\ UNCHANGED <<pc, now, sess, lastLogin, phase>>

\* POST /api/R
CreateRoute(c, r, columns, body) ==
  /\ pc = "serving"
  /\ LET rq == Request(c, "POST", PathOf(r), NoArg)
         params == [k \in columns |-> Field(body, k)]
     IN IF ~authenticate(c)
          THEN /\ resp' = Json401(rq, "Unauthorized", 0)
               /\ UNCHANGED <<db, log>>
          ELSE IF \E k \in columns : ~Bindable(params[k])
            THEN /\ resp' = Http500(rq, 1)
                 /\ UNCHANGED <<db, log>>
            ELSE /\ TotalRows < MaxRows
                 /\ db' = [db EXCEPT ![TableOf(r)] =
                             InsertRow(@, sess[c].userId, columns, params)]
                 /\ resp' = [rq EXCEPT !.status = 200, !.stmts = 1,
                               !.id = NextRowid(db[TableOf(r)])]
                 /\ log' = log \cup {[res |-> r, id |-> NextRowid(db[TableOf(r)]),
                                      body |-> body, by |-> lastLogin[c]]}
  /\ UNCHANGED <<pc, now, sess, lastLogin, phase>>

GetInspections(c) == ListRoute(c, "inspections")
PostInspections(c, body) == CreateRoute(c, "inspections", InspectionColumns, body)

GetTripReports(c) == ListRoute(c, "trip-reports")
PostTripReports(c, body) == CreateRoute(c, "trip-reports", TripReportColumns, body)

GetEstimates(c) == ListRoute(c, "estimates")
PostEstimates(c, body) == CreateRoute(c, "estimates", EstimateColumns, body)

GetMinutes(c) == ListRoute(c, "minutes")
PostMinutes(c, body) == CreateRoute(c, "minutes", MinuteColumns, body)

\* ------------------------------------------------------------------ system

Next ==
  \/ InitSchema /\ UNCHANGED <<clientVars, via>>
  \/ SeedAdmin /\ UNCHANGED <<clientVars, via>>
  \/ Stop /\ UNCHANGED <<clientVars, via>>
  \/ Tick /\ UNCHANGED <<clientVars, via>>
  \/ \E c \in Clients, u \in LoginNames, p \in LoginPasswords :
       Login(c, u, p) /\ UNCHANGED <<clientVars, via>>
  \/ \E c \in Clients : Logout(c) /\ UNCHANGED <<clientVars, via>>
  \/ \E c \in Clients : Me(c) /\ UNCHANGED <<clientVars, via>>
  \/ \E c \in Clients : GetInspections(c) /\ UNCHANGED <<clientVars, via>>
  \/ \E c \in Clients, b \in InspectionBodies :
       PostInspections(c, b) /\ UNCHANGED <<clientVars, via>>
  \/ \E c \in Clients : GetTripReports(c) /\ UNCHANGED <<clientVars, via>>
  \/ \E c \in Clients, b \in TripReportBodies :
       PostTripReports(c, b) /\ UNCHANGED <<clientVars, via>>
  \/ \E c \in Clients : GetEstimates(c) /\ UNCHANGED <<clientVars, via>>
  \/ \E c \in Clients, b \in EstimateBodies :
       PostEstimates(c, b) /\ UNCHANGED <<clientVars, via>>
  \/ \E c \in Clients : GetMinutes(c) /\ UNCHANGED <<clientVars, via>>
  \/ \E c \in Clients, b \in MinuteBodies :
       PostMinutes(c, b) /\ UNCHANGED <<clientVars, via>>

Spec == Init /\ [][Next]_vars

\* ------------------------------------------------------------------ App

\* The server has answered the fetch call m with the response just written.
Answer(m) ==
  /\ net' = Swap(m, [m EXCEPT !.stage = "answered", !.resp = resp'])
  /\ UNCHANGED <<mounted, currentUser, view, loading, isModalOpen, listVars, acked, via>>

\* No route matches: express.static passes a POST on, app.get('*') is for GET
\* only (in development the Vite middleware has no handler for it either), so
\* the final handler of Express answers 404.
NotFound(c, method, path) ==
  /\ pc = "serving"
  /\ resp' = [Request(c, method, path, NoArg) EXCEPT
                !.status = 404, !.error = "Not Found"]
  /\ UNCHANGED <<pc, db, now, sess, log, lastLogin, phase>>

ServeMe(m) ==
  /\ m.kind = "me" /\ m.stage = "sent"
  /\ Me(Browser)
  /\ Answer(m)

ServeLogin(m) ==
  /\ m.kind = "login" /\ m.stage = "sent"
  /\ Login(Browser, m.body.username.v, m.body.password)
  /\ Answer(m)

ServeLogout(m) ==
  /\ m.kind = "logout" /\ m.stage = "sent"
  /\ Logout(Browser)
  /\ Answer(m)

\* GET endpoints[view]
ServeList(m) ==
  /\ m.kind = "list" /\ m.stage = "sent"
  /\ \/ endpoints(m.view) = "/api/inspections" /\ GetInspections(Browser)
     \/ endpoints(m.view) = "/api/trip-reports" /\ GetTripReports(Browser)
     \/ endpoints(m.view) = "/api/estimates" /\ GetEstimates(Browser)
     \/ endpoints(m.view) = "/api/minutes" /\ GetMinutes(Browser)
  /\ Answer(m)

\* POST `/api/${view}`
ServeCreate(m) ==
  /\ m.kind = "create" /\ m.stage = "sent"
  /\ \/ TotalRows < MaxFormRows
     \/ ~authenticate(Browser)
     \/ endpoint(m.view) \notin BusinessPaths
  /\ \/ endpoint(m.view) = "/api/inspections"
        /\ PostInspections(Browser, m.body)
     \/ endpoint(m.view) = "/api/trip-reports"
        /\ PostTripReports(Browser, m.body)
     \/ endpoint(m.view) = "/api/estimates"
        /\ PostEstimates(Browser, m.body)
     \/ endpoint(m.view) = "/api/minutes"
        /\ PostMinutes(Browser, m.body)
     \/ endpoint(m.view) \notin BusinessPaths
        /\ NotFound(Browser, "POST", endpoint(m.view))
  /\ Answer(m)

\* The server is not listening: the fetch rejects.
NetFail(m) ==
  /\ m.stage = "sent"
  /\ pc # "serving"
  /\ net' = Swap(m, [m EXCEPT !.stage = "failed"])
  /\ UNCHANGED <<serverVars, mounted, currentUser, view, loading, isModalOpen,
                 listVars, acked>>

\* The first render and useEffect(() => { checkAuth() }, []): fetch('/api/me').
\* The other effect finds user null and fetches nothing.
Mount ==
  /\ ~mounted
  /\ Room
  /\ mounted' = TRUE
  /\ net' = Put(Fetch("me", "none", NoArg))
  /\ UNCHANGED <<serverVars, currentUser, view, loading, isModalOpen, listVars, acked>>

\* Mutant: setLoading(false) at the end of the try block, not in finally.
CheckAuthSettlesInTry(m) ==
  /\ m.kind = "me" /\ Settled(m)
  /\ IF m.stage = "answered"
       THEN /\ loading' = FALSE
            /\ IF Ok(m)
                 THEN /\ currentUser' = [id |-> m.resp.id,
                                         username |-> m.resp.username, role |-> ""]
                      /\ net' = Swap(m, Fetch("list", view, NoArg))
                 ELSE /\ net' = Take(m)
                      /\ UNCHANGED currentUser
       ELSE /\ net' = Take(m)
            /\ UNCHANGED <<currentUser, loading>>
  /\ UNCHANGED <<serverVars, mounted, view, isModalOpen, listVars, acked>>

\* checkAuth after its await: setUser(data) when res.ok, setLoading(false) in
\* every case. The render that follows runs the effect on [user, view], which
\* calls fetchData when user is set.
CheckAuthSettles(m) ==
  /\ m.kind = "me" /\ Settled(m)
  /\ IF Ok(m)
       THEN /\ currentUser' = [id |-> m.resp.id,
                               username |-> m.resp.username, role |-> ""]
            /\ net' = Swap(m, Fetch("list", view, NoArg))
       ELSE /\ net' = Take(m)
            /\ UNCHANGED currentUser
  /\ loading' = FALSE
  /\ UNCHANGED <<serverVars, mounted, view, isModalOpen, listVars, acked>>

\* handleLogin up to its await.
handleLogin(form) ==
  /\ mounted /\ Screen = "login"
  /\ Room
  /\ net' = Put(Fetch("login", "none", form))
  /\ UNCHANGED <<serverVars, mounted, currentUser, view, loading, isModalOpen,
                 listVars, acked>>

\* handleLogin after its await: setUser(data) when res.ok (and the effect on
\* [user, view] calls fetchData), an alert otherwise.
LoginSettles(m) ==
  /\ m.kind = "login" /\ Settled(m)
  /\ IF Ok(m)
       THEN /\ currentUser' = [id |-> m.resp.id,
                               username |-> m.resp.username,
                               role |-> m.resp.role]
            /\ net' = Swap(m, Fetch("list", view, NoArg))
       ELSE /\ net' = Take(m)
            /\ UNCHANGED currentUser
  /\ UNCHANGED <<serverVars, mounted, view, loading, isModalOpen, listVars, acked>>

\* handleLogout up to its await. The backdrop of the open modal covers the
\* sidebar.
handleLogout ==
  /\ Screen = "shell" /\ ~isModalOpen
  /\ Room
  /\ net' = Put(Fetch("logout", "none", NoArg))
  /\ UNCHANGED <<serverVars, mounted, currentUser, view, loading, isModalOpen,
                 listVars, acked>>

\* handleLogout after its await: whatever the status, setUser(null) and
\* setView('dashboard'); a rejected fetch throws out of the handler.
LogoutSettles(m) ==
  /\ m.kind = "logout" /\ Settled(m)
  /\ IF m.stage = "answered"
       THEN currentUser' = NoUser /\ view' = "dashboard"
       ELSE UNCHANGED <<currentUser, view>>
  /\ net' = Take(m)
  /\ UNCHANGED <<serverVars, mounted, loading, isModalOpen, listVars, acked>>

\* A NavItem's onClick: setView(v); the effect on [user, view] calls
\* fetchData, whose closure holds the new view.
SetView(v) ==
  /\ Screen = "shell" /\ ~isModalOpen
  /\ v # view
  /\ Room
  /\ view' = v
  /\ net' = Put(Fetch("list", v, NoArg))
  /\ UNCHANGED <<serverVars, mounted, currentUser, loading, isModalOpen, listVars, acked>>

\* fetchData after its await: when res.ok, the setter of the view the closure
\* holds is called with the body; no setter is named for 'dashboard'.
FetchDataSettles(m) ==
  /\ m.kind = "list" /\ Settled(m)
  /\ inspections' = IF Ok(m) /\ m.view = "inspections"
                      THEN m.resp.rows ELSE inspections
  /\ tripReports' = IF Ok(m) /\ m.view = "trip-reports"
                      THEN m.resp.rows ELSE tripReports
  /\ estimates' = IF Ok(m) /\ m.view = "estimates"
                    THEN m.resp.rows ELSE estimates
  /\ minutes' = IF Ok(m) /\ m.view = "minutes"
                  THEN m.resp.rows ELSE minutes
  /\ net' = Take(m)
  /\ UNCHANGED <<serverVars, mounted, currentUser, view, loading, isModalOpen, acked>>

\* The button that opens the modal.
OpenModal ==
  /\ Screen = "shell" /\ ~isModalOpen
  /\ isModalOpen' = TRUE
  /\ UNCHANGED <<serverVars, mounted, currentUser, view, loading, listVars, net, acked>>

\* The backdrop, the X and the cancel button.
CloseModal ==
  /\ Screen = "shell" /\ isModalOpen
  /\ isModalOpen' = FALSE
  /\ UNCHANGED <<serverVars, mounted, currentUser, view, loading, listVars, net, acked>>

\* Mutant: the form posts to endpoints[view].
SubmitToListEndpoint(data) ==
  /\ Screen = "shell" /\ isModalOpen
  /\ data \in FormBodies(view)
  /\ Room
  /\ net' = Put(Fetch("create", IF view = "dashboard" THEN "inspections" ELSE view, data))
  /\ UNCHANGED <<serverVars, mounted, currentUser, view, loading, isModalOpen,
                 listVars, acked>>

\* The form's onSubmit up to its await: one POST of the form's fields.
Submit(data) ==
  /\ Screen = "shell" /\ isModalOpen
  /\ data \in FormBodies(view)
  /\ Room
  /\ net' = Put(Fetch("create", view, data))
  /\ UNCHANGED <<serverVars, mounted, currentUser, view, loading, isModalOpen,
                 listVars, acked>>

\* Mutant: the modal is closed and the list fetched again whatever the status.
SubmitSettlesWhateverStatus(m) ==
  /\ m.kind = "create" /\ Settled(m)
  /\ IF m.stage = "answered"
       THEN /\ isModalOpen' = FALSE
            /\ net' = Swap(m, Fetch("list", m.view, NoArg))
            /\ acked' = IF Ok(m)
                          THEN acked \cup {[view |-> m.view, id |-> m.resp.id]}
                          ELSE acked
       ELSE /\ net' = Take(m)
            /\ UNCHANGED <<isModalOpen, acked>>
  /\ UNCHANGED <<serverVars, mounted, currentUser, view, loading, listVars>>

\* The form's onSubmit after its await: when res.ok, setIsModalOpen(false) and
\* fetchData() of the render the handler belongs to; nothing otherwise (a
\* rejected fetch throws out of the handler).
SubmitSettles(m) ==
  /\ m.kind = "create" /\ Settled(m)
  /\ IF Ok(m)
       THEN /\ isModalOpen' = FALSE
            /\ net' = Swap(m, Fetch("list", m.view, NoArg))
            /\ acked' = acked \cup {[view |-> m.view, id |-> m.resp.id]}
       ELSE /\ net' = Take(m)
            /\ UNCHANGED <<isModalOpen, acked>>
  /\ UNCHANGED <<serverVars, mounted, currentUser, view, loading, listVars>>

\* The page is loaded again: App is constructed anew (every useState takes
\* its initial value) and the fetch calls of the old page are abandoned,
\* whether or not the server has handled them.
Reload ==
  /\ mounted
  /\ mounted' = FALSE
  /\ currentUser' = NoUser
  /\ view' = "dashboard"
  /\ loading' = TRUE
  /\ isModalOpen' = FALSE
  /\ inspections' = <<>>
  /\ tripReports' = <<>>
  /\ estimates' = <<>>
  /\ minutes' = <<>>
  /\ net' = EmptyBag
  /\ UNCHANGED <<serverVars, acked>>

\* The list a view renders.
Shown(v) ==
  CASE v = "dashboard" -> inspections
    [] v = "inspections" -> inspections
    [] v = "trip-reports" -> tripReports
    [] v = "estimates" -> estimates
    [] v = "minutes" -> minutes

Statuses == {"pending", "completed", "urgent"}

\* The three values of DashboardView's stats:
\* inspections.filter(i => i.status === s).length
stats(rows) ==
  [st \in Statuses |->
     Cardinality({i \in 1..Len(rows) : rows[i].cols.status = T(st)})]

NextApp ==
  \/ InitSchema /\ UNCHANGED <<clientVars, via>>
  \/ SeedAdmin /\ UNCHANGED <<clientVars, via>>
  \/ Mount
  \/ Reload
  \/ \E form \in LoginForms : handleLogin(form)
  \/ handleLogout
  \/ \E v \in Views : SetView(v)
  \/ OpenModal
  \/ CloseModal
  \/ \E v \in Views : \E data \in FormBodies(v) : Submit(data)
  \/ \E m \in InFlight : ServeMe(m)
  \/ \E m \in InFlight : ServeLogin(m)
  \/ \E m \in InFlight : ServeLogout(m)
  \/ \E m \in InFlight : ServeList(m)
  \/ \E m \in InFlight : ServeCreate(m)
  \/ \E m \in InFlight : NetFail(m)
  \/ \E m \in InFlight : CheckAuthSettles(m)
  \/ \E m \in InFlight : LoginSettles(m)
  \/ \E m \in InFlight : LogoutSettles(m)
  \/ \E m \in InFlight : FetchDataSettles(m)
  \/ \E m \in InFlight : SubmitSettles(m)

SpecApp == Init /\ [][NextApp]_vars

\* A request that reaches the listening server is handled, a request to a
\* server that is not listening is refused, and a promise that has settled
\* runs the rest of checkAuth.
SpecAppFair ==
  /\ SpecApp
  /\ WF_vars(\E m \in InFlight : ServeMe(m))
  /\ WF_vars(\E m \in InFlight : NetFail(m))
  /\ WF_vars(\E m \in InFlight : CheckAuthSettles(m))


\* ------------------------------------------------------------------ claims

\* A request of client c was answered in this step.
Answered(c) == resp' # resp /\ resp'.client = c

IsList(r) == resp.method = "GET" /\ resp.path = PathOf(r)
IsCreate(r) == resp.method = "POST" /\ resp.path = PathOf(r)
IsLogin == resp.method = "POST" /\ resp.path = "/api/login"
IsLogout == resp.method = "POST" /\ resp.path = "/api/logout"
IsMe == resp.method = "GET" /\ resp.path = "/api/me"

\* C1: a GET or POST on any of the four resources from a session that carries
\* no userId is answered 401, runs no store statement, returns no rows and no
\* id, and leaves every table as it was.
C1_NoSessionIsRefused ==
  [][\A c \in Clients :
       (Answered(c) /\ resp'.path \in BusinessPaths /\ sess[c].userId = 0)
         => /\ resp'.status = 401
            /\ resp'.stmts = 0
            /\ resp'.rows = <<>>
            /\ resp'.id = 0
            /\ db' = db]_vars

\* A create refused after a logout, with rows in the store.
C1_Witness ==
  /\ resp.path \in BusinessPaths
  /\ resp.method = "POST"
  /\ resp.status = 401
  /\ phase[resp.client] = "loggedOut"
  /\ TotalRows > 0

\* The rows of a listing that carry the id.
WithId(rows, id) == {i \in 1..Len(rows) : rows[i].id = id}

ReadBack(k, val) ==
  IF val = Undefined THEN Null
  ELSE IF k \in {"expenses", "amount"} /\ val.t = "text" /\ val.v \in NumericText
    THEN N(val.v)
    ELSE val

C3_NewestFirst ==
  \A r \in Resources :
    (IsList(r) /\ resp.status = 200)
      => \A i, j \in 1..Len(resp.rows) : i < j => resp.rows[i].id > resp.rows[j].id

\* The credentials of the login that resp answers.
LoginName == resp.arg.username.v
LoginPassword == resp.arg.password

\* C4: a login whose username exists and whose password matches the stored
\* hash (the seeded admin / admin123 among them) is answered 200 with that
\* user's id, username and role and leaves the session carrying that id and
\* username; GET /api/me on a session logged in that way answers the id and
\* username of the user who logged in.
C4_LoginThenMe ==
  /\ (IsLogin /\ Presented(LoginName, LoginPassword) # {})
       => \E i \in UsersNamed(LoginName) :
            /\ resp.status = 200
            /\ resp.id = Users[i].id
            /\ resp.username = Users[i].username
            /\ resp.role = Users[i].role
            /\ sess[resp.client] = [userId |-> Users[i].id, username |-> Users[i].username]
  /\ (IsLogin /\ LoginName = "admin" /\ LoginPassword = T("admin123"))
       => resp.status = 200 /\ resp.username = "admin" /\ resp.role = "admin"
  /\ \A c \in Clients :
       (IsMe /\ resp.client = c /\ lastLogin[c] # 0)
         => /\ resp.status = 200
            /\ resp.id = lastLogin[c]
            /\ \E i \in 1..Len(Users) :
                 Users[i].id = lastLogin[c] /\ resp.username = Users[i].username

\* GET /api/me answered with the admin's identity.
C4_Witness ==
  /\ IsMe
  /\ resp.status = 200
  /\ resp.username = "admin"
  /\ lastLogin[resp.client] = resp.id

\* C5 as stated: a login that presents no valid credentials, whether the user
\* exists or not, is answered 401 "Invalid credentials" and writes no userId
\* to the session.
C5_FailedLoginsLookAlike ==
  (IsLogin /\ Presented(LoginName, LoginPassword) = {})
    => /\ resp.status = 401
       /\ resp.error = "Invalid credentials"
       /\ (sess[resp.client].userId # 0 => resp.authed)

\* C6: on a session on which GET /api/me has succeeded and POST /api/logout
\* has then completed, GET /api/me and the business endpoints answer 401
\* until a login succeeds again.
C6_LoggedOutIsRefused ==
  \A c \in Clients :
    phase[c] = "loggedOut"
      => /\ sess[c].userId = 0
         /\ (resp.client = c /\ (IsMe \/ resp.path \in BusinessPaths))
              => resp.status = 401

\* GET /api/me refused on a session where it had succeeded before the logout.
C6_Witness ==
  /\ IsMe
  /\ resp.status = 401
  /\ phase[resp.client] = "loggedOut"

\* C7: POST /api/logout always answers {success: true}, leaves the session
\* without userId and changes no table, with or without an active session.
C7_LogoutUnconditional ==
  [][\A c \in Clients :
       (Answered(c) /\ resp'.method = "POST" /\ resp'.path = "/api/logout")
         => /\ resp'.status = 200
            /\ resp'.success
            /\ sess'[c] = NoSession
            /\ db' = db]_vars

\* A logout answered on a session that carried no userId, rows in the store.
C7_Witness ==
  /\ IsLogout
  /\ ~resp.authed
  /\ resp.status = 200
  /\ TotalRows > 0

AdminRows == UsersNamed("admin")

\* C8: whenever the server is up the users table holds exactly one row named
\* admin, no two user rows ever share a username, and the only step that adds
\* a user row is the seed, which adds the admin row and only when there is none.
C8_OneAdmin ==
  /\ [](pc = "serving" => Cardinality(AdminRows) = 1)
  /\ [](\A i, j \in 1..Len(Users) : Users[i].username = Users[j].username => i = j)
  /\ [][Users' # Users
          => /\ pc = "schema"
             /\ AdminRows = {}
             /\ Len(Users') = Len(Users) + 1
             /\ Users'[Len(Users')].username = "admin"
             /\ \A i \in 1..Len(Users) : Users'[i] = Users[i]]_vars

\* The server is up again after a run in which rows were created.
C8_Witness ==
  /\ pc = "serving"
  /\ resp = NoResp
  /\ log # {}
  /\ Cardinality(AdminRows) = 1

\* C9: through logins, logouts, me, listings, creates and reboots, every row
\* of a resource table stays where it is with the id and fields it has, so no
\* table shrinks, and a listing changes no table.
C9_RowsImmutable ==
  [][/\ \A t \in BusinessTables :
          \A i \in 1..Len(Rows(t)) :
            Len(Rows(t)') >= i /\ Rows(t)'[i] = Rows(t)[i]
     /\ (resp' # resp /\ resp'.method = "GET") => db' = db]_vars

\* A reboot under way with rows in the file.
C9_Witness ==
  /\ pc = "schema"
  /\ TotalRows >= 2

\* C10: every business row carries the user_id of the user who had last
\* logged in on the session that sent the create, whatever the body says
\* (one body carries user_id 2).
C10_RowsTaggedWithSessionUser ==
  /\ \A e \in log :
       /\ e.by # 0
       /\ \E i \in 1..Len(Rows(TableOf(e.res))) :
            Rows(TableOf(e.res))[i].id = e.id /\ Rows(TableOf(e.res))[i].user_id = e.by
  /\ \A r \in Resources :
       \A i \in 1..Len(Rows(TableOf(r))) :
         \E e \in log : e.res = r /\ e.id = Rows(TableOf(r))[i].id
                        /\ e.by = Rows(TableOf(r))[i].user_id

\* An inspection created from the body that names user_id 2, stored under the
\* admin's id.
C10_Witness ==
  \E e \in log :
    /\ e.res = "inspections"
    /\ e.body.user_id = N("2")
    /\ \E i \in 1..Len(Rows("inspections")) :
         Rows("inspections")[i].id = e.id /\ Rows("inspections")[i].user_id = 1

\* C11: a create is all-or-nothing. A POST on a resource either is answered
\* 200 with an id, and then its table has exactly one row more, the new row is
\* the last one and carries that id, and no other table changed; or it is
\* answered 401 or 500, and then no table changed. While the server serves,
\* no resource table changes except by a create answered 200.
C11_CreateAllOrNothing ==
  [][/\ \A c \in Clients, r \in Resources :
          (Answered(c) /\ IsCreate(r)') =>
            \/ /\ resp'.status = 200
               /\ resp'.id > 0
               /\ Len(Rows(TableOf(r))') = Len(Rows(TableOf(r))) + 1
               /\ Rows(TableOf(r))'[Len(Rows(TableOf(r))')].id = resp'.id
               /\ WithId(Rows(TableOf(r)), resp'.id) = {}
               /\ \A t \in AllTables \ {TableOf(r)} : Rows(t)' = Rows(t)
            \/ /\ resp'.status \in {401, 500}
               /\ resp'.id = 0
               /\ db' = db
     /\ \A t \in BusinessTables :
          (pc = "serving" /\ Rows(t)' # Rows(t)) =>
            \E c \in Clients, r \in Resources :
              /\ TableOf(r) = t
              /\ Answered(c) /\ IsCreate(r)'
              /\ resp'.status = 200]_vars

\* A create that failed in the store (500) with rows already in the tables.
C11_Witness ==
  /\ \E r \in Resources : IsCreate(r)
  /\ resp.status = 500
  /\ TotalRows >= 1

\* ------------------------------------------------------------------ two sessions

\* History: a create answered with {id} in this step is recorded with the
\* session it came from.
Track ==
  /\ via' = IF resp' # resp /\ resp'.method = "POST" /\ resp'.status = 200
                /\ resp'.path \in BusinessPaths
             THEN via \cup {[path |-> resp'.path, id |-> resp'.id,
                              client |-> resp'.client]}
             ELSE via
  /\ UNCHANGED clientVars

\* The server with its two sessions, as in Next. The clock stands still: all
\* rows tie on created_at, so a listing can come in any order.
NextSessions ==
  \/ InitSchema /\ Track
  \/ SeedAdmin /\ Track
  \/ Stop /\ Track
  \/ \E c \in Clients, u \in LoginNames, p \in LoginPasswords :
       Login(c, u, p) /\ Track
  \/ \E c \in Clients : Logout(c) /\ Track
  \/ \E c \in Clients : Me(c) /\ Track
  \/ \E c \in Clients : GetInspections(c) /\ Track
  \/ \E c \in Clients, b \in InspectionBodies : PostInspections(c, b) /\ Track
  \/ \E c \in Clients : GetTripReports(c) /\ Track
  \/ \E c \in Clients, b \in TripReportBodies : PostTripReports(c, b) /\ Track
  \/ \E c \in Clients : GetEstimates(c) /\ Track
  \/ \E c \in Clients, b \in EstimateBodies : PostEstimates(c, b) /\ Track
  \/ \E c \in Clients : GetMinutes(c) /\ Track
  \/ \E c \in Clients, b \in MinuteBodies : PostMinutes(c, b) /\ Track

SpecSessions == Init /\ [][NextSessions]_vars

\* ------------------------------------------------------------------ claims on App

\* The continuation of fetch call m runs in this step.
SettlesNow(m) == m \in InFlight /\ Settled(m) /\ net' = Take(m) /\ mounted'

\* C12 as stated: when the dashboard's fetch of /api/inspections has
\* succeeded and the dashboard is shown, the three counts it displays are the
\* per-status counts of the rows of that response.
C12_DashboardCountsMatchFetch ==
  [][\A m \in InFlight :
       (/\ m.kind = "list" /\ m.view = "dashboard" /\ Ok(m)
        /\ SettlesNow(m)
        /\ view' = "dashboard" /\ Screen' = "shell")
       => stats(Shown("dashboard")') = stats(m.resp.rows)]_vars

\* C13 as stated: a view change while authenticated issues the fetch of the
\* new view's list endpoint, and an ok response to the fetch of a view's list
\* replaces the list that view shows by the rows of the response, for each of
\* the five views.
C13_ViewChangeReplacesList ==
  [][/\ (view' # view /\ currentUser' # NoUser)
          => net' = Put(Fetch("list", view', NoArg))
     /\ \A m \in InFlight :
          (m.kind = "list" /\ Ok(m) /\ SettlesNow(m))
          => Shown(m.view)' = m.resp.rows]_vars

\* Fetch call m leaves the bag in this step because its continuation runs.
Leaves(m) ==
  /\ m \in InFlight /\ Settled(m) /\ mounted'
  /\ CopiesIn(m, net') < CopiesIn(m, net)

\* The server answers fetch call m in this step.
Served(m) ==
  /\ m \in InFlight /\ m.stage = "sent"
  /\ net' = Swap(m, [m EXCEPT !.stage = "answered", !.resp = resp'])

\* C14: a submit puts exactly one POST in flight, which carries a field map
\* of the active view's form and goes to /api/<that view>, and changes
\* nothing else. When its response is ok the handler closes the modal and
\* issues one fetch of the list of the view the form was submitted from; when
\* the response is not ok the modal is left as it is, no fetch is issued and
\* the four lists stay as they are.
C14_SubmitThenRefetchIffOk ==
  [][/\ \A m \in BagToSet(net') :
          (/\ m.kind = "create" /\ m.stage = "sent"
           /\ CopiesIn(m, net') > CopiesIn(m, net)) =>
            /\ net' = Put(m)
            /\ m.view = view /\ m.body \in FormBodies(view)
            /\ UNCHANGED <<serverVars, mounted, currentUser, view, loading,
                           isModalOpen, listVars>>
     /\ \A m \in InFlight :
          (m.kind = "create" /\ Served(m)) =>
            /\ resp'.method = "POST"
            /\ resp'.path = "/api/" \o m.view
     /\ \A m \in InFlight :
          (m.kind = "create" /\ Leaves(m)) =>
            IF Ok(m)
              THEN /\ ~isModalOpen'
                   /\ net' = Swap(m, Fetch("list", m.view, NoArg))
                   /\ UNCHANGED listVars
              ELSE /\ UNCHANGED <<isModalOpen, listVars>>
                   /\ net' = Take(m)]_vars

\* A create was answered ok and closed the modal; the modal was opened again
\* and a second submit was refused by the server (the session was gone):
\* its handler has run and the modal is still open.
C14_Witness ==
  /\ acked # {}
  /\ resp.client = Browser /\ resp.method = "POST" /\ resp.status = 401
  /\ resp.path \in BusinessPaths
  /\ \A m \in InFlight : m.kind # "create"
  /\ isModalOpen

\* A fetch of a list is issued in this step.
ListFetchIssued ==
  \E m \in BagToSet(net') :
    m.kind = "list" /\ m.stage = "sent" /\ CopiesIn(m, net') > CopiesIn(m, net)

\* The mount issues the one call of /api/me and nothing else issues one: the
\* call is in flight exactly while the mounted page is loading, alone.
MeCalledOnceOnMount ==
  /\ [][\A m \in BagToSet(net') :
          (m.kind = "me" /\ m.stage = "sent" /\ CopiesIn(m, net') > CopiesIn(m, net))
          => ~mounted /\ mounted' /\ net' = Put(m)]_vars
  /\ []((mounted /\ loading) <=> (\E m \in InFlight : m.kind = "me"))
  /\ [](\A m \in InFlight : m.kind = "me" => BagCardinality(net) = 1)

\* Once mounted, loading becomes false (or the page is loaded anew).
LoadingEnds == (mounted /\ loading) ~> (~loading \/ ~mounted)

\* When checkAuth's fetch settles loading is false; the shell is shown with
\* user equal to the body if the response was ok, the login screen if it was
\* not ok or the fetch failed.
ScreenAfterCheckAuth ==
  [][\A m \in InFlight :
       (m.kind = "me" /\ Leaves(m)) =>
         IF Ok(m)
           THEN /\ Screen' = "shell"
                /\ currentUser'.id = m.resp.id
                /\ currentUser'.username = m.resp.username
           ELSE /\ Screen' = "login"]_vars

\* C15 as stated: (...) and no fetch of a business list is issued while user
\* is null.
C15_MountThenGate ==
  /\ MeCalledOnceOnMount
  /\ LoadingEnds
  /\ ScreenAfterCheckAuth
  /\ [][ListFetchIssued => currentUser' # NoUser]_vars

\* C15: the mount calls /api/me once; whether the call is answered ok,
\* answered not ok or fails, loading becomes false; from then the shell is
\* shown with user equal to the body if the response was ok and the login
\* screen otherwise; while user is null the only fetch of a business list
\* that is issued is the re-fetch of a create form whose POST was answered ok.
C15_MountThenGateButRefetch ==
  /\ MeCalledOnceOnMount
  /\ LoadingEnds
  /\ ScreenAfterCheckAuth
  /\ [][(ListFetchIssued /\ currentUser' = NoUser) =>
          \E m \in InFlight :
            /\ m.kind = "create" /\ Ok(m) /\ Leaves(m)
            /\ net' = Swap(m, Fetch("list", m.view, NoArg))]_vars

\* The page was loaded with a session: /api/me was answered ok, and the shell
\* is shown for the user of the body (which has no role).
C15_Witness ==
  /\ mounted /\ Screen = "shell"
  /\ currentUser.id = 1 /\ currentUser.role = ""

\* C16 as stated: once a create was answered ok and no fetch call is in
\* flight any more, the list of the active view holds the created row
\* (whenever the active view is the view the row was created from).
C16_CreatedRowShown ==
  \A e \in acked :
    (net = EmptyBag /\ Screen = "shell" /\ view = e.view) =>
      \E i \in 1..Len(Shown(view)) : Shown(view)[i].id = e.id

\* ------------------------------------------------------------------ claims on sessions

\* C17 as stated: a login that presents an unknown user or a wrong password
\* is answered 401 and leaves the session store as it was, so that a session
\* that carried a userId carries the same userId and username afterwards.
C17_FailedLoginKeepsSession ==
  [][\A c \in Clients :
       (Answered(c) /\ IsLogin' /\ (Presented(LoginName, LoginPassword) = {})')
         => /\ resp'.status = 401
            /\ sess' = sess
            /\ db' = db]_vars

\* The part of C17 about the session alone: whatever the answer to a login
\* that presents no valid credentials, the session store is left as it was.
FailedLoginFrame ==
  [][\A c \in Clients :
       (Answered(c) /\ IsLogin' /\ (Presented(LoginName, LoginPassword) = {})')
         => sess' = sess /\ db' = db]_vars

\* C18: a login, failed login or logout answered on one session leaves the
\* data of every other session (whether it is authenticated, its userId and
\* username) as it was; and a listing answered 200 on a session holds every
\* row of the table, the rows created through other sessions included.
C18_SessionsIndependent ==
  [][\A c \in Clients :
       /\ (Answered(c) /\ (IsLogin' \/ IsLogout'))
            => \A d \in Clients \ {c} : sess'[d] = sess[d]
       /\ \A r \in Resources :
            (Answered(c) /\ IsList(r)' /\ sess[c].userId # 0)
              => /\ resp'.status = 200
                 /\ Len(resp'.rows) = Len(Rows(TableOf(r)))
                 /\ \A e \in via :
                      e.path = PathOf(r) => WithId(resp'.rows, e.id) # {}]_vars

\* Both sessions are logged in, the row was created through one of them and
\* the listing that shows it was answered on the other.
C18_Witness ==
  /\ \A c \in Clients : sess[c].userId # 0
  /\ resp.method = "GET" /\ resp.status = 200
  /\ \E e \in via :
       /\ e.path = resp.path
       /\ e.client # resp.client
       /\ WithId(resp.rows, e.id) # {}

\* C19: a submit on the dashboard puts a POST to /api/dashboard in flight;
\* the server answers it 404 and changes no table; the handler then leaves the
\* modal and the lists as they are and issues no fetch. A resource table
\* changes only when the server answers the POST of a form submitted from the
\* view of that resource.
C19_DashboardSubmitCreatesNothing ==
  [][/\ \A m \in BagToSet(net') :
          (/\ m.kind = "create" /\ m.stage = "sent"
           /\ CopiesIn(m, net') > CopiesIn(m, net)
           /\ view = "dashboard")
          => m.view = "dashboard"
     /\ \A m \in InFlight :
          (m.kind = "create" /\ m.view = "dashboard") =>
            /\ Served(m) =>
                 /\ resp'.method = "POST" /\ resp'.path = "/api/dashboard"
                 /\ resp'.status = 404
                 /\ db' = db
            /\ Leaves(m) =>
                 /\ ~Ok(m)
                 /\ net' = Take(m)
                 /\ UNCHANGED <<isModalOpen, listVars>>
     /\ \A t \in BusinessTables :
          Rows(t)' # Rows(t) =>
            \E m \in InFlight :
              /\ m.kind = "create" /\ Served(m)
              /\ m.view \in Resources /\ TableOf(m.view) = t]_vars

\* The form was submitted from the dashboard, the server has answered 404 and
\* the handler has run: the modal is still open.
C19_Witness ==
  /\ resp.client = Browser /\ resp.path = "/api/dashboard" /\ resp.status = 404
  /\ \A m \in InFlight : m.kind # "create"
  /\ Screen = "shell" /\ view = "dashboard" /\ isModalOpen

====
